---- MODULE Spec2Model ----
(***************************************************************************)
(* Model of examples/gallery/demos/VTKWarp.ipynb: a scalar field on a      *)
(* plane, warped by pyvista and animated by a panel Player widget whose    *)
(* value changes run the callback update_3d_warp.                          *)
(*                                                                         *)
(* Real numbers are exact rationals [n, d] in lowest terms (d > 0).  The   *)
(* only inexact operation is np.sin, which is a fixed-point approximation  *)
(* returning thousandths.                                                  *)
(***************************************************************************)
EXTENDS Integers, Sequences, FiniteSets, TLC

(***************************************************************************)
(* Bounds of the model.  GridN is the number of samples per axis: the      *)
(* notebook samples 101 per axis (np.linspace(-4, 4, 101)); the model      *)
(* keeps the interval and the formulae and samples GridN values.           *)
(***************************************************************************)
GridN == 3
MaxPending == 2
MaxChanges == 4
MaxReruns == 1

(***************************************************************************)
(* Program constants.                                                      *)
(***************************************************************************)
alpha == 2
GridLo == -4
GridHi == 4
PlayerStart == 0
PlayerEnd == 50
TimeDivisor == 5

(***************************************************************************)
(* Exact rational arithmetic (Python floats, without rounding).            *)
(***************************************************************************)
Abs(a) == IF a < 0 THEN -a ELSE a

Gcd[a \in Nat, b \in Nat] == IF b = 0 THEN a ELSE Gcd[b, a % b]

\* The rational n/d in lowest terms.  The arithmetic is written as
\* functions, which take their arguments by value.
Rat[n \in Int, d \in Int] ==
    LET s == IF d < 0 THEN -1 ELSE 1
        g == Gcd[Abs(n), Abs(d)]
    IN  [n |-> (s * n) \div g, d |-> (s * d) \div g]

Rationals == [n : Int, d : Nat]
RInt(k) == [n |-> k, d |-> 1]
RAdd[a \in Rationals, b \in Rationals] == Rat[a.n * b.d + b.n * a.d, a.d * b.d]
RSub[a \in Rationals, b \in Rationals] == Rat[a.n * b.d - b.n * a.d, a.d * b.d]
RMul[a \in Rationals, b \in Rationals] == Rat[a.n * b.n, a.d * b.d]
RDiv[a \in Rationals, b \in Rationals] == Rat[a.n * b.d, a.d * b.n]
RLeq(a, b) == a.n * b.d <= b.n * a.d

\* a ** k for a natural number k
RPow[a \in Rationals, k \in Nat] == IF k = 0 THEN RInt(1) ELSE RMul[a, RPow[a, k - 1]]

(***************************************************************************)
(* np.sin, in fixed point: the argument is reduced to milliradians modulo  *)
(* 2*pi, and the half wave is Bhaskara's rational approximation            *)
(*   sin x ~ 16 x (pi - x) / (5 pi^2 - 4 x (pi - x)),  0 <= x <= pi.       *)
(* The result is a rational number of thousandths.                         *)
(***************************************************************************)
Milli == 1000
PiMilli == 3142

HalfWave[x \in Int] ==
    LET p == x * (PiMilli - x)
    IN  (16 * p) \div ((5 * PiMilli * PiMilli - 4 * p) \div Milli)

Sin[a \in Rationals] ==
    LET m == ((Abs(a.n) * Milli) \div a.d) % (2 * PiMilli)
        h == IF m > PiMilli THEN -HalfWave[m - PiMilli] ELSE HalfWave[m]
    IN  Rat[IF a.n < 0 THEN -h ELSE h, Milli]

(***************************************************************************)
(* The grid: xvals, yvals = np.linspace(-4, 4, GridN) and np.meshgrid with *)
(* its default 'xy' indexing: both results have shape (len(yvals),         *)
(* len(xvals)), xs[r, c] = xvals[c] and ys[r, c] = yvals[r].  Arrays are   *)
(* functions on 0-based indices.                                           *)
(***************************************************************************)
linspace(lo, hi, num) ==
    [i \in 0..(num - 1) |-> RAdd[RInt(lo), Rat[i * (hi - lo), num - 1]]]

xvals == linspace(GridLo, GridHi, GridN)
yvals == linspace(GridLo, GridHi, GridN)
Size(a) == Cardinality(DOMAIN a)

Rows == 0..(Size(yvals) - 1)
Cols == 0..(Size(xvals) - 1)
xs == [rc \in Rows \X Cols |-> xvals[rc[2]]]
ys == [rc \in Rows \X Cols |-> yvals[rc[1]]]

Min(a) == CHOOSE m \in {a[i] : i \in DOMAIN a} : \A i \in DOMAIN a : RLeq(m, a[i])

\* def time_function(time): return np.sin(((ys/alpha)**alpha+time)*xs)
time_function(time) ==
    [rc \in Rows \X Cols |->
        Sin[RMul[RAdd[RPow[RDiv[ys[rc], RInt(alpha)], alpha], time], xs[rc]]]]

\* ndarray.flatten(order='F') of a 2-D array: column-major, the row index
\* varies fastest.
FlattenF(A, nrows, ncols) ==
    [k \in 0..(nrows * ncols - 1) |-> A[<<k % nrows, k \div nrows>>]]

(***************************************************************************)
(* pyvista.  A UniformGrid is its dimensions, spacing and origin; its      *)
(* points are implicit, point id = i + nx*j with i the x index (x varies   *)
(* fastest; the grid has one layer, k = 0).  point_arrays maps a name to   *)
(* one value per point.                                                    *)
(***************************************************************************)
UniformGrid(dims, spacing, origin) ==
    [dimensions |-> dims, spacing |-> spacing, origin |-> origin,
     point_arrays |-> <<>>]

n_points(mesh) == mesh.dimensions[1] * mesh.dimensions[2] * mesh.dimensions[3]

GridPoints(mesh) ==
    LET nx == mesh.dimensions[1]
    IN  [p \in 0..(n_points(mesh) - 1) |->
            <<RAdd[mesh.origin[1], RMul[RInt(p % nx), mesh.spacing[1]]],
              RAdd[mesh.origin[2], RMul[RInt(p \div nx), mesh.spacing[2]]],
              mesh.origin[3]>>]

\* point_arrays.append(narray, name): the array of that name is (re)placed.
PointArraysAppend(arrays, narray, name) ==
    [k \in (DOMAIN arrays) \cup {name} |-> IF k = name THEN narray ELSE arrays[k]]

\* DataSetFilters.warp_by_scalar(factor=1.0, normal=(0, 0, 1)): a new point
\* set whose points are moved along the normal by factor * scalar; x and y
\* stay, the point data is carried over.
WarpPoints(points, scalars, factor) ==
    [p \in DOMAIN points |->
        <<points[p][1], points[p][2], RAdd[points[p][3], RMul[factor, scalars[p]]]>>]

warp_by_scalar(mesh, factor) ==
    [points |-> WarpPoints(GridPoints(mesh), mesh.point_arrays["scalars"], factor),
     point_arrays |-> mesh.point_arrays]

DefaultFactor == RInt(1)
UpdateFactor == Rat[1, 2]

(***************************************************************************)
(* Notebook cell 2: mesh_ref with the data for time = 0.                   *)
(***************************************************************************)
InitialData == FlattenF(time_function(RInt(0)), Size(yvals), Size(xvals))

mesh_ref_init ==
    LET g == UniformGrid(<<Size(xvals), Size(yvals), 1>>,
                         <<RSub[xvals[1], xvals[0]], RSub[yvals[1], yvals[0]], RInt(1)>>,
                         <<Min(xvals), Min(yvals), RInt(0)>>)
    IN  [g EXCEPT !.point_arrays = PointArraysAppend(@, InitialData, "scalars")]

\* Notebook cell 3: mesh_warped = mesh_ref.warp_by_scalar()
mesh_warped_init == warp_by_scalar(mesh_ref_init, DefaultFactor)

(***************************************************************************)
(* State.                                                                  *)
(*   mesh_ref, mesh_warped   the two pyvista meshes                        *)
(*   player                  the Player widget: its value and the          *)
(*                           direction in which it is playing              *)
(*   pending                 value-change events not yet delivered         *)
(*   pc, frame, time, data   the running update_3d_warp: the line it is    *)
(*                           at and its locals                             *)
(*   synced                  what vtkpan last sent to the client           *)
(* History variables, read by the properties only:                         *)
(*   trace                   the steps the current (or last) run executed  *)
(*   last_frame              the argument of the last completed run        *)
(*   posted                  the values of all value changes, in order     *)
(*   ran                     the arguments of the runs started by events   *)
(*   completed               how many of those runs have returned          *)
(*   reruns                  how many direct calls were made               *)
(*   seen                    frame -> meshes after the first completed run *)
(*                           with that frame                               *)
(***************************************************************************)
VARIABLES mesh_ref, mesh_warped, player, pending, pc, frame, time, data,
          synced, trace, last_frame, posted, ran, completed, reruns,
          seen

vars == <<mesh_ref, mesh_warped, player, pending, pc, frame, time, data,
          synced, trace, last_frame, posted, ran, completed, reruns,
          seen>>

meshes == <<mesh_ref, mesh_warped>>
locals == <<frame, time, data>>
counters == <<posted, ran, completed, reruns>>

Frames == PlayerStart..PlayerEnd
NoFrame == PlayerStart - 1
NoTime == [unset |-> TRUE]
NoData == <<>>

\* The values a user drags the slider to: either end of the range.
DragTargets == {PlayerStart, PlayerEnd}

Init ==
    /\ mesh_ref = mesh_ref_init
    /\ mesh_warped = mesh_warped_init
    /\ player = [value |-> PlayerStart, direction |-> 1]
    /\ pending = <<>>
    /\ pc = "idle"
    /\ frame = NoFrame
    /\ time = NoTime
    /\ data = NoData
    /\ synced = mesh_warped_init
    /\ trace = <<>>
    /\ last_frame = NoFrame
    /\ posted = <<>>
    /\ ran = <<>>
    /\ completed = 0
    /\ reruns = 0
    /\ seen = <<>>

(***************************************************************************)
(* The Player widget (start=0, end=50, loop_policy="reflect").  A tick of  *)
(* the animation moves the value one step in the current direction; at an  *)
(* end of the range the direction is reversed and the step is taken the    *)
(* other way.  Every change of the value posts one event.                  *)
(***************************************************************************)
Reflect(p) ==
    LET next == p.value + p.direction
    IN  IF next > PlayerEnd \/ next < PlayerStart
        THEN [value |-> p.value - p.direction, direction |-> -p.direction]
        ELSE [value |-> next, direction |-> p.direction]

Post(p) ==
    /\ Len(posted) < MaxChanges
    /\ Len(pending) < MaxPending
    /\ player' = p
    /\ pending' = Append(pending, p.value)
    /\ posted' = Append(posted, p.value)
    /\ UNCHANGED <<meshes, pc, locals, synced, trace, last_frame, ran,
                   completed, reruns, seen>>

Tick == Post(Reflect(player))

Drag ==
    \E v \in DragTargets \ {player.value} : Post([player EXCEPT !.value = v])

(***************************************************************************)
(* The event loop: one thread; an event is delivered when no callback is   *)
(* running, oldest first, and the callback runs with the event's value.    *)
(***************************************************************************)
Dispatch ==
    /\ pc = "idle"
    /\ pending # <<>>
    /\ frame' = Head(pending)
    /\ pending' = Tail(pending)
    /\ pc' = "l79"
    /\ trace' = <<>>
    /\ ran' = Append(ran, Head(pending))
    /\ UNCHANGED <<meshes, player, time, data, synced, last_frame, posted,
                   completed, reruns, seen>>

\* update_3d_warp called again, directly, with the argument of the run
\* that has just completed.
Rerun ==
    /\ pc = "idle"
    /\ last_frame # NoFrame
    /\ reruns < MaxReruns
    /\ frame' = last_frame
    /\ pc' = "l79"
    /\ trace' = <<>>
    /\ reruns' = reruns + 1
    /\ UNCHANGED <<meshes, player, pending, time, data, synced, last_frame,
                   posted, ran, completed, seen>>

(***************************************************************************)
(* update_3d_warp(frame), one action per line.  pc names the line that     *)
(* runs next.                                                              *)
(***************************************************************************)
\* Mutant: the frame is multiplied by 5 instead of divided.
TimeOf_Times(f) == Rat[f * TimeDivisor, 1]

\* time = frame/5 (true division)
TimeOf(f) == Rat[f, TimeDivisor]

\* data = time_function(time).flatten(order='F')
DataOf(t) == FlattenF(time_function(t), Size(yvals), Size(xvals))

SetScalars(mesh, narray) ==
    [mesh EXCEPT !.point_arrays = PointArraysAppend(@, narray, "scalars")]

\* Mutant: the warp displaces the points along x (normal=(1, 0, 0)).
WarpedPoints_AlongX(mref) ==
    [p \in DOMAIN GridPoints(mref) |->
        <<RAdd[GridPoints(mref)[p][1], RMul[UpdateFactor, mref.point_arrays["scalars"][p]]],
          GridPoints(mref)[p][2], GridPoints(mref)[p][3]>>]

\* mesh_ref.warp_by_scalar(factor=0.5).points
WarpedPoints(mref) == warp_by_scalar(mref, UpdateFactor).points

ComputeTime ==
    /\ pc = "l79"
    /\ time' = TimeOf(frame)
    /\ pc' = "l80"
    /\ UNCHANGED <<meshes, player, pending, frame, data, synced, trace,
                   last_frame, counters, seen>>

ComputeData ==
    /\ pc = "l80"
    /\ data' = DataOf(time)
    /\ pc' = "l81"
    /\ UNCHANGED <<meshes, player, pending, frame, time, synced, trace,
                   last_frame, counters, seen>>

\* Mutant: line 81 appends to mesh_warped instead of mesh_ref, so that the
\* warp of line 83 is computed from the field of the previous run.
AppendRef_WrongMesh ==
    /\ pc = "l81"
    /\ mesh_warped' = SetScalars(mesh_warped, data)
    /\ trace' = Append(trace, "mesh_ref.scalars")
    /\ pc' = "l82"
    /\ UNCHANGED <<mesh_ref, player, pending, locals, synced, last_frame,
                   counters, seen>>

AppendRef ==
    /\ pc = "l81"
    /\ mesh_ref' = SetScalars(mesh_ref, data)
    /\ trace' = Append(trace, "mesh_ref.scalars")
    /\ pc' = "l82"
    /\ UNCHANGED <<mesh_warped, player, pending, locals, synced, last_frame,
                   counters, seen>>

\* Mutant: line 82 is missing, mesh_warped keeps the scalars it had.
AppendWarped_Missing ==
    /\ pc = "l82"
    /\ trace' = Append(trace, "mesh_warped.scalars")
    /\ pc' = "l83"
    /\ UNCHANGED <<meshes, player, pending, locals, synced, last_frame,
                   counters, seen>>

AppendWarped ==
    /\ pc = "l82"
    /\ mesh_warped' = SetScalars(mesh_warped, data)
    /\ trace' = Append(trace, "mesh_warped.scalars")
    /\ pc' = "l83"
    /\ UNCHANGED <<mesh_ref, player, pending, locals, synced, last_frame,
                   counters, seen>>

\* Mutant: the warped mesh is warped again (mesh_warped.warp_by_scalar).
AssignPoints_Accumulate ==
    /\ pc = "l83"
    /\ mesh_warped' = [mesh_warped EXCEPT !.points =
            WarpPoints(mesh_warped.points, mesh_warped.point_arrays["scalars"],
                       UpdateFactor)]
    /\ trace' = Append(trace, "mesh_warped.points")
    /\ pc' = "l84"
    /\ UNCHANGED <<mesh_ref, player, pending, locals, synced, last_frame,
                   counters, seen>>

AssignPoints ==
    /\ pc = "l83"
    /\ mesh_warped' = [mesh_warped EXCEPT !.points = WarpedPoints(mesh_ref)]
    /\ trace' = Append(trace, "mesh_warped.points")
    /\ pc' = "l84"
    /\ UNCHANGED <<mesh_ref, player, pending, locals, synced, last_frame,
                   counters, seen>>

\* Mutant: the callback returns without calling vtkpan.synchronize().
Synchronize_Missing ==
    /\ pc = "l84"
    /\ pc' = "idle"
    /\ frame' = NoFrame
    /\ time' = NoTime
    /\ data' = NoData
    /\ last_frame' = frame
    /\ completed' = Len(ran)
    /\ seen' = IF frame \in DOMAIN seen THEN seen ELSE seen @@ (frame :> meshes)
    /\ UNCHANGED <<meshes, player, pending, posted, ran, reruns, synced, trace>>

\* vtkpan.synchronize(): the scene of the render window, which shows
\* mesh_warped, is sent to the client; then the callback returns.
Synchronize ==
    /\ pc = "l84"
    /\ synced' = mesh_warped
    /\ trace' = Append(trace, "synchronize")
    /\ pc' = "idle"
    /\ frame' = NoFrame
    /\ time' = NoTime
    /\ data' = NoData
    /\ last_frame' = frame
    /\ completed' = Len(ran)
    /\ seen' = IF frame \in DOMAIN seen THEN seen ELSE seen @@ (frame :> meshes)
    /\ UNCHANGED <<meshes, player, pending, posted, ran, reruns>>

Callback ==
    \/ ComputeTime
    \/ ComputeData
    \/ AppendRef
    \/ AppendWarped
    \/ AssignPoints
    \/ Synchronize

Next ==
    \/ Tick
    \/ Drag
    \/ Dispatch
    \/ Rerun
    \/ Callback

Spec == Init /\ [][Next]_vars

\* The event loop keeps delivering events and a started callback runs to
\* its end; the Player and the user may stop at any time.
FairSpec == Spec /\ WF_vars(Dispatch) /\ WF_vars(Callback)

(***************************************************************************)
(* Properties.                                                             *)
(***************************************************************************)
Scalars(mesh) == mesh.point_arrays["scalars"]
\* time_function(f/5) flattened, and the grid's points warped by an array
\* with factor 0.5.  (A bound variable holds a value computed once.)
Field(f) == FlattenF(time_function(Rat[f, TimeDivisor]), Size(yvals), Size(xvals))
Warped(field) == WarpPoints(GridPoints(mesh_ref_init), field, Rat[1, 2])
RunDone == pc = "idle" /\ last_frame # NoFrame
FullTrace ==
    <<"mesh_ref.scalars", "mesh_warped.scalars", "mesh_warped.points", "synchronize">>
Writes == {"mesh_ref.scalars", "mesh_warped.scalars", "mesh_warped.points"}
Steps(t) == {t[k] : k \in DOMAIN t}
Count(t, x) == Cardinality({k \in DOMAIN t : t[k] = x})

\* C1 (safety part): one run per value change, started with the value of
\* that change; a run synchronizes at most once, only after it has written
\* mesh_ref's scalars, mesh_warped's scalars and mesh_warped's points for
\* its frame, and it has synchronized exactly once when it returns.
C1_Safety ==
    /\ Len(ran) + Len(pending) = Len(posted)
    /\ Len(ran) > completed => pc # "idle" /\ frame = posted[Len(ran)]
    /\ Count(trace, "synchronize") <= 1
    /\ \A w \in Writes : Count(trace, w) <= 1
    /\ pc = "l84" =>
          /\ Steps(trace) = Writes
          /\ \A field \in {Field(frame)} :
                /\ Scalars(mesh_ref) = field
                /\ Scalars(mesh_warped) = field
                /\ mesh_warped.points = Warped(field)
    /\ "synchronize" \in Steps(trace) =>
          /\ pc = "idle"
          /\ Writes \subseteq Steps(trace)
          /\ trace[Len(trace)] = "synchronize"
    /\ RunDone => Count(trace, "synchronize") = 1

\* C1: every change of the Player's value triggers one run of
\* update_3d_warp with the new value, each run ends with exactly one
\* synchronize that follows the run's three mesh updates, and every value
\* change is eventually followed by the synchronize of its run.
C1_EveryChangeSynchronized ==
    /\ []C1_Safety
    /\ \A n \in 1..MaxChanges : (Len(posted) >= n) ~> (completed >= n)

C1_Witness == pc = "idle" /\ completed = 2 /\ Len(posted) = 2 /\ trace = FullTrace

\* C2: after update_3d_warp(f) has completed, whatever happened before,
\* the scalars of mesh_ref and of mesh_warped both are time_function(f/5)
\* flattened, and mesh_warped.points are mesh_ref's points warped with
\* factor 0.5 by that field (the field of frame f, not of an earlier one).
C2_PostState ==
    RunDone =>
        \A field \in {Field(last_frame)} :
            /\ Scalars(mesh_ref) = Scalars(mesh_warped)
            /\ Scalars(mesh_ref) = field
            /\ mesh_warped.points = WarpPoints(GridPoints(mesh_ref), field, Rat[1, 2])

\* A run for a frame whose field differs from the field of the run before.
C2_Witness ==
    /\ RunDone
    /\ completed >= 2
    /\ Field(last_frame) # Field(ran[completed - 1])
    /\ last_frame = ran[completed]

\* The field value time_function(t) takes at the coordinates (x, y).
FieldAt(t, x, y) == Sin[RMul[RAdd[RPow[RDiv[y, RInt(alpha)], alpha], t], x]]
ArrayTime == IF last_frame = NoFrame THEN RInt(0) ELSE Rat[last_frame, TimeDivisor]

\* C3: the scalar stored at the mesh point with grid indices (i, j), point
\* id i + nx*j, is time_function(t) at x = xvals[i], y = yvals[j], for the
\* initial array (t = 0) and for every array update_3d_warp has written.
C3_SampledAtMeshCoordinates ==
    pc = "idle" =>
        \A i \in DOMAIN xvals, j \in DOMAIN yvals :
            LET p == i + Size(xvals) * j
            IN  /\ GridPoints(mesh_ref)[p] = <<xvals[i], yvals[j], RInt(0)>>
                /\ Scalars(mesh_ref)[p] = FieldAt(ArrayTime, xvals[i], yvals[j])

\* C4: the Player's value stays in 0..50, and the callback's time = frame/5
\* lies in [0, 10], with frame 0 giving 0 and frame 50 giving 10.
C4_ValueAndTimeRange ==
    /\ player.value \in PlayerStart..PlayerEnd
    /\ player.direction \in {-1, 1}
    /\ \A k \in DOMAIN pending : pending[k] \in PlayerStart..PlayerEnd
    /\ frame # NoFrame => frame \in PlayerStart..PlayerEnd
    /\ time # NoTime =>
          /\ RLeq(RInt(0), time) /\ RLeq(time, RInt(10))
          /\ time.n * 5 = frame * time.d
          /\ frame = 0 => time = RInt(0)
          /\ frame = 50 => time = RInt(10)

\* The player was reflected at the upper end and the callback runs for
\* frame 50.
C4_Witness ==
    /\ frame = PlayerEnd
    /\ time = RInt(10)
    /\ player = [value |-> PlayerEnd - 1, direction |-> -1]

\* C5: the grid is fixed: mesh_ref's dimensions, spacing, origin and points
\* never change, mesh_warped keeps its number of points and the x and y of
\* each point, both meshes have GridN*GridN points and each scalars array
\* has that many entries.
C5_GridFixed ==
    \A init \in {mesh_ref_init} :
        /\ mesh_ref.dimensions = init.dimensions
        /\ mesh_ref.spacing = init.spacing
        /\ mesh_ref.origin = init.origin
        /\ n_points(mesh_ref) = GridN * GridN
        /\ DOMAIN mesh_warped.points = 0..(GridN * GridN - 1)
        /\ DOMAIN Scalars(mesh_ref) = 0..(GridN * GridN - 1)
        /\ DOMAIN Scalars(mesh_warped) = 0..(GridN * GridN - 1)
        /\ \A points \in {GridPoints(init)} :
              /\ GridPoints(mesh_ref) = points
              /\ \A p \in DOMAIN mesh_warped.points :
                    /\ mesh_warped.points[p][1] = points[p][1]
                    /\ mesh_warped.points[p][2] = points[p][2]

\* A run has moved a point of mesh_warped and changed a scalar.
C5_Witness ==
    /\ RunDone
    /\ \E p \in DOMAIN mesh_warped.points :
          /\ mesh_warped.points[p][3] # mesh_warped_init.points[p][3]
          /\ Scalars(mesh_warped)[p] # Scalars(mesh_warped_init)[p]

WarpOfRef(factor) == WarpPoints(GridPoints(mesh_ref), Scalars(mesh_ref), factor)

\* C7: whenever no callback is running, mesh_warped's points are the warp
\* of mesh_ref's points by mesh_ref's scalars with the factor mesh_warped
\* was built with, so that the surface for frame 0 after update_3d_warp(0)
\* is the surface of the initial state.
C7_OneWarpFactor ==
    pc = "idle" =>
        /\ mesh_warped.points = WarpOfRef(DefaultFactor)
        /\ last_frame = PlayerStart => mesh_warped.points = mesh_warped_init.points

\* C8: the state update_3d_warp(f) leaves depends on f alone: it is the
\* state the first completed run for f left, whatever ran in between, and
\* also when the run before was for the same f.
C8_HistoryIndependent ==
    RunDone => last_frame \in DOMAIN seen /\ meshes = seen[last_frame]

\* A frame ran first and again after other frames, and a run was repeated.
C8_Witness ==
    /\ RunDone
    /\ reruns > 0
    /\ completed = Len(ran)
    /\ Len(ran) >= 3
    /\ ran[1] = last_frame
    /\ ran[2] # last_frame

====
